---- MODULE Spec2Model ----
(***************************************************************************)
(* WeepingCAN bus-off simulator: the CAN bus medium (can_bus.py), the       *)
(* error-counting node (ecu.py), the victim producer (victim_ecu.py), the   *)
(* attacker's cycle selection (attacker_ecu.py) and the orchestrator loop   *)
(* (simulation.py).                                                         *)
(*                                                                         *)
(* Six specifications share the operators translated from the source:       *)
(*   Spec          the orchestrator loop of run_simulation, jitter drawn    *)
(*                 nondeterministically each attack cycle;                  *)
(*   SpecNoJitter  the same loop with SYNC_ERROR_PROBABILITY patched to 0;  *)
(*   SpecNode      one ECU driven by arbitrary sequences of _increment_tec, *)
(*                 _decrement_tec and _check_state_transition calls;        *)
(*   SpecBus       one call of the bus, the attacker, the victim or the     *)
(*                 loop head applied to a sampled reachable state;          *)
(*   SpecCodec     frame bits, arbitration and the injection pool over      *)
(*                 sampled identifiers and payloads;                        *)
(*   SpecThreads   two threads calling the bus, one field access per step.  *)
(***************************************************************************)
EXTENDS Integers, Sequences, FiniteSets

VARIABLES
    tec,            \* ECU.tec, per node
    state,          \* ECU.state, per node
    rx,             \* ECU._rx_buffer, per node
    stats,          \* AttackerECU._cycle_count, _attack_count, _skip_count, _mistimed_count, _valid_count
    seq,            \* VictimECU._seq
    registered,     \* keys of CANBus._nodes (a node is registered iff its .bus is set: ECU.attach)
    lock,           \* CANBus._lock: None when free, else the thread that holds it
    cycle,          \* run_simulation: cycle
    pc,             \* position of the running code
    victim_frame,   \* run_simulation: victim_frame (Optional)
    ok,             \* run_simulation: ok, the value attack() returned
    call,           \* SpecNode / SpecBus: the call being applied, with its arguments
    ret,            \* SpecNode / SpecBus: what the call returned or raised
    pre             \* SpecBus: the object fields as they were when the call was made

vars == <<tec, state, rx, stats, seq, registered, lock, cycle, pc, victim_frame, ok, call, ret, pre>>

objvars == <<tec, state, rx, stats, seq>>
busvars == <<registered, lock>>
simvars == <<cycle, victim_frame, ok>>
callvars == <<call, ret, pre>>

---------------------------------------------------------------------------
(* Constants of the source *)

TEC_ERROR_PASSIVE_THRESHOLD == 128
TEC_BUS_OFF_THRESHOLD == 256
TEC_MAX == 256
DOMINANT == 0
RECESSIVE == 1
ID_LENGTH == 11
ERROR_PENALTY == 8
RETRANSMIT_DECREMENT == 1
N_VALID_MSGS == 5
SYNC_ERROR_PERCENT == 5
SKIP_TEC_THRESHOLD == 6
VICTIM_CAN_ID == 256
DEFAULT_MAX_CYCLES == 100

ERROR_ACTIVE == "Error-Active"
ERROR_PASSIVE == "Error-Passive"
BUS_OFF == "Bus-Off"
ECUState == {ERROR_ACTIVE, ERROR_PASSIVE, BUS_OFF}

\* Variant: every position of the pool one bit later.
SAFE_INJECT_POSITIONS_shifted == {14, 19, 21, 23, 26, 29, 35}

SAFE_INJECT_POSITIONS == {13, 18, 20, 22, 25, 28, 34}

VICTIM == "VICTIM"
ATTACKER == "ATTACKER"
Nodes == {VICTIM, ATTACKER}

\* Optional[T]: None is the empty sequence, a present value x is <<x>>.
None == << >>
Some(x) == <<x>>
IsNone(o) == o = << >>
Val(o) == o[1]

Min(a, b) == IF a < b THEN a ELSE b
Max(a, b) == IF a > b THEN a ELSE b

---------------------------------------------------------------------------
(* can_bus.py: frames and their bits *)

CANFrame(can_id, data, sender_id, inject_recessive_at, is_malicious) ==
    [can_id |-> can_id, data |-> data, sender_id |-> sender_id,
     inject_recessive_at |-> inject_recessive_at, is_malicious |-> is_malicious]

\* (x >> k) & 1
BitAt(x, k) == (x \div (2 ^ k)) % 2

\* [(can_id >> (length - 1 - i)) & 1 for i in range(length)], 1-indexed here
_id_to_bits(can_id) == [i \in 1..ID_LENGTH |-> BitAt(can_id, ID_LENGTH - i)]

\* Variant: each byte's bits taken least significant first.
_data_to_bits_lsb_first(data) ==
    [k \in 1..(8 * Len(data)) |-> BitAt(data[((k - 1) \div 8) + 1], (k - 1) % 8)]

\* for byte in data: for i in 7..0: bits.append((byte >> i) & 1)
_data_to_bits(data) ==
    [k \in 1..(8 * Len(data)) |-> BitAt(data[((k - 1) \div 8) + 1], 7 - ((k - 1) % 8))]

\* Python's seq[i] for the indices the guard `i < len(seq)` lets through:
\* a negative i counts from the end, and below -len(seq) it raises IndexError.
PyIndexRaises(s, i) == i < 0 - Len(s)
PyIndex(s, i) == IF i >= 0 THEN s[i + 1] ELSE s[Len(s) + i + 1]

---------------------------------------------------------------------------
(* ecu.py: the error-counting node *)

\* Variant: the upper clamp left out.
_increment_tec_unclamped(t, amount) == t + amount

_increment_tec(t, amount) == Min(t + amount, TEC_MAX)

_decrement_tec(t, amount) == Max(t - amount, 0)

\* Variant: the thresholds compared with > instead of >=.
_check_state_transition_strict(t) ==
    IF t > TEC_BUS_OFF_THRESHOLD THEN BUS_OFF
    ELSE IF t > TEC_ERROR_PASSIVE_THRESHOLD THEN ERROR_PASSIVE
    ELSE ERROR_ACTIVE

_check_state_transition(t) ==
    IF t >= TEC_BUS_OFF_THRESHOLD THEN BUS_OFF
    ELSE IF t >= TEC_ERROR_PASSIVE_THRESHOLD THEN ERROR_PASSIVE
    ELSE ERROR_ACTIVE

\* The object fields as one value w; node methods applied to node n of w.
World == [tec |-> tec, state |-> state, rx |-> rx, stats |-> stats, seq |-> seq]

SetWorld(w) ==
    /\ tec' = w.tec
    /\ state' = w.state
    /\ rx' = w.rx
    /\ stats' = w.stats
    /\ seq' = w.seq

NodeIncrement(w, n, amount) == [w EXCEPT !.tec[n] = _increment_tec(@, amount)]
NodeDecrement(w, n, amount) == [w EXCEPT !.tec[n] = _decrement_tec(@, amount)]
NodeCheck(w, n) == [w EXCEPT !.state[n] = _check_state_transition(w.tec[n])]
NodeReceive(w, n, frame) == [w EXCEPT !.rx[n] = Append(@, frame)]

---------------------------------------------------------------------------
(* can_bus.py: the bus medium.  reg is the key set of CANBus._nodes. *)

\* What an operation hands back: the object fields after it, its return value
\* ("True", "False", "None") or the exception it raised, and the arbitration
\* winner it logged (None when no arbitration took place).
Result(w, r, winner_id) == [w |-> w, ret |-> r, winner |-> winner_id]

\* Variant: the side that drives RECESSIVE at the first differing bit wins.
Arbitration_recessive_wins(frame, concurrent) ==
    LET victim_id_bits == _id_to_bits(concurrent.can_id)
        attacker_id_bits == _id_to_bits(frame.can_id)
        differ == {i \in 1..ID_LENGTH : victim_id_bits[i] # attacker_id_bits[i]}
    IN  IF differ = {} THEN "TIE"
        ELSE LET i == CHOOSE i \in differ : \A j \in differ : i <= j
             IN  IF victim_id_bits[i] = RECESSIVE THEN concurrent.sender_id
                 ELSE frame.sender_id

\* _do_transmit, the arbitration loop: the first index at which the identifier
\* bits differ decides; the side that drives DOMINANT there wins.
Arbitration(frame, concurrent) ==
    LET victim_id_bits == _id_to_bits(concurrent.can_id)
        attacker_id_bits == _id_to_bits(frame.can_id)
        differ == {i \in 1..ID_LENGTH : victim_id_bits[i] # attacker_id_bits[i]}
    IN  IF differ = {} THEN "TIE"
        ELSE LET i == CHOOSE i \in differ : \A j \in differ : i <= j
             IN  IF victim_id_bits[i] = DOMINANT THEN concurrent.sender_id
                 ELSE frame.sender_id

\* Variant: the victim retransmits even when the penalty took it to Bus-Off.
_emit_error_flag_always_retransmits(w, reg, attacker_name, victim_name) ==
    LET has_attacker == attacker_name \in reg
        has_victim == (~IsNone(victim_name)) /\ Val(victim_name) \in reg
        w1 == IF has_attacker THEN NodeIncrement(w, attacker_name, ERROR_PENALTY) ELSE w
        w2 == IF has_victim
              THEN LET v == Val(victim_name)
                       a == NodeCheck(NodeIncrement(w1, v, ERROR_PENALTY), v)
                   IN  NodeCheck(NodeDecrement(a, v, RETRANSMIT_DECREMENT), v)
              ELSE w1
    IN  IF has_attacker THEN NodeCheck(w2, attacker_name) ELSE w2

\* _emit_error_flag(attacker_name, victim_name)
_emit_error_flag(w, reg, attacker_name, victim_name) ==
    LET has_attacker == attacker_name \in reg
        has_victim == (~IsNone(victim_name)) /\ Val(victim_name) \in reg
        w1 == IF has_attacker THEN NodeIncrement(w, attacker_name, ERROR_PENALTY) ELSE w
        w2 == IF has_victim
              THEN LET v == Val(victim_name)
                       a == NodeCheck(NodeIncrement(w1, v, ERROR_PENALTY), v)
                   IN  IF a.state[v] # BUS_OFF
                       THEN NodeCheck(NodeDecrement(a, v, RETRANSMIT_DECREMENT), v)
                       ELSE a
              ELSE w1
    IN  IF has_attacker THEN NodeCheck(w2, attacker_name) ELSE w2

\* _deliver_frame(frame): every registered node but the sender receives it.
RECURSIVE DeliverTo(_, _, _)
DeliverTo(w, names, frame) ==
    IF names = {} THEN w
    ELSE LET name == CHOOSE x \in names : TRUE
         IN  DeliverTo(NodeReceive(w, name, frame), names \ {name}, frame)

\* Variant: a successful sender's counter is decremented by 1.
_deliver_frame_rewards_sender(w, reg, frame) ==
    LET d == DeliverTo(w, {name \in reg : name # frame.sender_id}, frame)
    IN  IF frame.sender_id \in reg
        THEN NodeCheck(NodeDecrement(d, frame.sender_id, 1), frame.sender_id)
        ELSE d

\* Variant: the sender receives its own frame too.
_deliver_frame_to_all(w, reg, frame) == DeliverTo(w, reg, frame)

_deliver_frame(w, reg, frame) ==
    DeliverTo(w, {name \in reg : name # frame.sender_id}, frame)

\* _do_transmit, the bit the other party drives at inject_pos: taken from the
\* concurrent frame, or from the frame itself when there is none; DOMINANT when
\* inject_pos is not below the length of that bit sequence.
VictimFull(frame, concurrent) ==
    IF IsNone(concurrent)
    THEN _id_to_bits(frame.can_id) \o _data_to_bits(frame.data)
    ELSE _id_to_bits(Val(concurrent).can_id) \o _data_to_bits(Val(concurrent).data)

VictimSent(victim_full, inject_pos) ==
    IF inject_pos < Len(victim_full) THEN PyIndex(victim_full, inject_pos) ELSE DOMINANT

\* Variant: a frame whose sender lost the arbitration is not sent at all.
_do_transmit_loser_backs_off(w, reg, frame, concurrent) ==
    LET winner_id == IF IsNone(concurrent) THEN None
                     ELSE Some(Arbitration(frame, Val(concurrent)))
        delivered == Result(_deliver_frame(w, reg, frame), "True", winner_id)
        lost == /\ ~IsNone(concurrent)
                /\ Val(winner_id) = Val(concurrent).sender_id
                /\ Val(concurrent).sender_id # frame.sender_id
    IN  IF lost THEN Result(w, "False", winner_id)
        ELSE IF frame.is_malicious /\ ~IsNone(frame.inject_recessive_at)
        THEN LET inject_pos == Val(frame.inject_recessive_at)
                 victim_full == VictimFull(frame, concurrent)
             IN  IF inject_pos < Len(victim_full) /\ PyIndexRaises(victim_full, inject_pos)
                 THEN Result(w, "IndexError", winner_id)
                 ELSE IF VictimSent(victim_full, inject_pos) = DOMINANT
                      THEN Result(_emit_error_flag(w, reg, frame.sender_id,
                                      IF IsNone(concurrent) THEN None
                                      ELSE Some(Val(concurrent).sender_id)),
                                  "False", winner_id)
                      ELSE delivered
        ELSE delivered

\* _do_transmit(frame, concurrent)
_do_transmit(w, reg, frame, concurrent) ==
    LET winner_id == IF IsNone(concurrent) THEN None
                     ELSE Some(Arbitration(frame, Val(concurrent)))
        delivered == Result(_deliver_frame(w, reg, frame), "True", winner_id)
    IN  IF frame.is_malicious /\ ~IsNone(frame.inject_recessive_at)
        THEN LET inject_pos == Val(frame.inject_recessive_at)
                 victim_full == VictimFull(frame, concurrent)
             IN  IF inject_pos < Len(victim_full) /\ PyIndexRaises(victim_full, inject_pos)
                 THEN Result(w, "IndexError", winner_id)
                 ELSE LET attacker_sent == RECESSIVE
                          victim_sent == VictimSent(victim_full, inject_pos)
                          bus_result == IF victim_sent = DOMINANT \/ attacker_sent = DOMINANT
                                        THEN DOMINANT ELSE RECESSIVE
                      IN  IF attacker_sent = RECESSIVE /\ bus_result = DOMINANT
                          THEN Result(_emit_error_flag(w, reg, frame.sender_id,
                                          IF IsNone(concurrent) THEN None
                                          ELSE Some(Val(concurrent).sender_id)),
                                      "False", winner_id)
                          ELSE delivered
        ELSE delivered

\* transmit(frame, concurrent_frame): _do_transmit under the bus lock.
transmit(w, reg, frame, concurrent) == _do_transmit(w, reg, frame, concurrent)

\* Variant: one decrement however many frames were sent.
ValidLoop_single(w, name, n) ==
    IF n <= 0 THEN w
    ELSE IF w.tec[name] > 0 THEN NodeDecrement(w, name, 1) ELSE w

\* transmit_valid, the loop: n times, decrement by 1 while the counter is above 0.
RECURSIVE ValidLoop(_, _, _)
ValidLoop(w, name, n) ==
    IF n <= 0 THEN w
    ELSE ValidLoop(IF w.tec[name] > 0 THEN NodeDecrement(w, name, 1) ELSE w, name, n - 1)

\* transmit_valid(sender_name, n)
transmit_valid(w, reg, sender_name, n) ==
    IF sender_name \notin reg THEN w
    ELSE NodeCheck(ValidLoop(w, sender_name, n), sender_name)

\* ECU.send(frame, concurrent_frame), called on node self
send(w, reg, self, frame, concurrent) ==
    IF w.state[self] = BUS_OFF THEN Result(w, "False", None)
    ELSE IF self \notin reg THEN Result(w, "RuntimeError", None)
    ELSE transmit(w, reg, frame, concurrent)

---------------------------------------------------------------------------
(* victim_ecu.py: the periodic producer *)

VICTIM_DATA_PREFIX == <<222, 173, 190>>

\* _make_frame: the frame built after _seq was advanced to s
_make_frame(can_id, s, name) ==
    CANFrame(can_id, VICTIM_DATA_PREFIX \o <<s>>, name, None, FALSE)

NextSeq(s) == (s + 1) % 256

\* Variant: _seq advanced before the Bus-Off test.
broadcast_advances_first(w, self) ==
    IF w.state[self] = BUS_OFF
    THEN [w |-> [w EXCEPT !.seq = NextSeq(@)], ret |-> "RuntimeError", frame |-> None]
    ELSE [w |-> [w EXCEPT !.seq = NextSeq(@)], ret |-> "Frame",
          frame |-> Some(_make_frame(VICTIM_CAN_ID, NextSeq(w.seq), self))]

\* broadcast(): raises when the node is Bus-Off, else advances _seq and
\* returns the frame.
broadcast(w, self) ==
    IF w.state[self] = BUS_OFF
    THEN [w |-> w, ret |-> "RuntimeError", frame |-> None]
    ELSE [w |-> [w EXCEPT !.seq = NextSeq(@)], ret |-> "Frame",
          frame |-> Some(_make_frame(VICTIM_CAN_ID, NextSeq(w.seq), self))]

---------------------------------------------------------------------------
(* attacker_ecu.py: the attacker's cycle selection, called on node self.    *)
(* Each cycle is a sequence of steps; a step is one statement group that    *)
(* changes a node or calls the bus.                                         *)

InitStats ==
    [cycle_count |-> 0, attack_count |-> 0, skip_count |-> 0,
     mistimed_count |-> 0, valid_count |-> 0]

\* self.target_can_id: 0x100 from the constructor and from analyze_pattern
target_can_id == VICTIM_CAN_ID

_make_attack_frame(self, victim_frm, inject_pos) ==
    CANFrame(target_can_id, victim_frm.data, self, Some(inject_pos), TRUE)

\* Variant: the threshold compared with > instead of >=.
_should_skip_strict(w, self) == w.tec[self] > SKIP_TEC_THRESHOLD

\* Variant: the Error-Passive threshold used in place of the skip threshold.
_should_skip_at_passive(w, self) == w.tec[self] >= TEC_ERROR_PASSIVE_THRESHOLD

_should_skip(w, self) == w.tec[self] >= SKIP_TEC_THRESHOLD

\* self.bus._nodes.get(victim_frame.sender_id) if self.bus else None, and the
\* guard `victim_node and victim_node.state != BUS_OFF`
VictimTransmitsOk(w, reg, self, victim_frm) ==
    /\ self \in reg
    /\ victim_frm.sender_id \in reg
    /\ w.state[victim_frm.sender_id] # BUS_OFF

\* Variant: the victim drained by the attacker's valid-frame count.
SkipVictimDecrement_by_valid_count(w, reg, self, victim_frm) ==
    LET w1 == [w EXCEPT !.stats.skip_count = @ + 1]
    IN  IF VictimTransmitsOk(w1, reg, self, victim_frm)
        THEN NodeDecrement(w1, victim_frm.sender_id, N_VALID_MSGS)
        ELSE w1

\* _execute_skip up to victim_node._decrement_tec(1)
SkipVictimDecrement(w, reg, self, victim_frm) ==
    LET w1 == [w EXCEPT !.stats.skip_count = @ + 1]
    IN  IF VictimTransmitsOk(w1, reg, self, victim_frm)
        THEN NodeDecrement(w1, victim_frm.sender_id, 1)
        ELSE w1

\* _execute_skip, victim_node._check_state_transition()
VictimCheck(w, reg, self, victim_frm) ==
    IF VictimTransmitsOk(w, reg, self, victim_frm)
    THEN NodeCheck(w, victim_frm.sender_id)
    ELSE w

\* Variant: the valid frames counted but never sent.
SendValidFrames_not_sent(w, reg, self) ==
    [w EXCEPT !.stats.valid_count = @ + N_VALID_MSGS]

\* _execute_skip and _execute_attack, the valid frames: bus.transmit_valid
\* when attached, then _valid_count += N_VALID_MSGS
SendValidFrames(w, reg, self) ==
    LET w1 == IF self \in reg THEN transmit_valid(w, reg, self, N_VALID_MSGS) ELSE w
    IN  [w1 EXCEPT !.stats.valid_count = @ + N_VALID_MSGS]

_execute_skip(w, reg, self, victim_frm) ==
    Result(SendValidFrames(
               VictimCheck(SkipVictimDecrement(w, reg, self, victim_frm),
                           reg, self, victim_frm),
               reg, self),
           "True", None)

\* Variant: the victim drained by the attacker's valid-frame count.
MistimedVictimDecrement_by_valid_count(w, reg, self, victim_frm) ==
    LET w1 == [w EXCEPT !.stats.mistimed_count = @ + 1]
    IN  IF VictimTransmitsOk(w1, reg, self, victim_frm)
        THEN NodeDecrement(w1, victim_frm.sender_id, N_VALID_MSGS)
        ELSE w1

\* _execute_mistimed up to victim_node._decrement_tec(1)
MistimedVictimDecrement(w, reg, self, victim_frm) ==
    LET w1 == [w EXCEPT !.stats.mistimed_count = @ + 1]
    IN  IF VictimTransmitsOk(w1, reg, self, victim_frm)
        THEN NodeDecrement(w1, victim_frm.sender_id, 1)
        ELSE w1

_execute_mistimed(w, reg, self, victim_frm) ==
    Result(VictimCheck(MistimedVictimDecrement(w, reg, self, victim_frm),
                       reg, self, victim_frm),
           "True", None)

\* Variant: a draw equal to the probability counts as a sync error too.
SyncError_inclusive(draw, probability) == draw <= probability

\* random.random() < SYNC_ERROR_PROBABILITY, in hundredths
SyncError(draw, probability) == draw < probability

\* _execute_attack, step 1: build the attack frame and send it beside the
\* victim's frame
Inject(w, reg, self, victim_frm, inject_pos) ==
    send(w, reg, self, _make_attack_frame(self, victim_frm, inject_pos), Some(victim_frm))

_execute_attack(w, reg, self, victim_frm, draw, probability, inject_pos) ==
    LET w1 == [w EXCEPT !.stats.attack_count = @ + 1]
    IN  IF SyncError(draw, probability)
        THEN _execute_mistimed(w1, reg, self, victim_frm)
        ELSE LET sent == Inject(w1, reg, self, victim_frm, inject_pos)
             IN  IF sent.ret \in {"RuntimeError", "IndexError"}
                 THEN sent
                 ELSE Result(SendValidFrames(sent.w, reg, self), "True", sent.winner)

\* Variant: the cycle counted before the refusal.
attack_counts_refused_cycle(w, reg, self, victim_frm, draw, probability, inject_pos) ==
    LET w1 == [w EXCEPT !.stats.cycle_count = @ + 1]
    IN  IF w.state[self] # ERROR_ACTIVE THEN Result(w1, "False", None)
        ELSE IF _should_skip(w1, self)
             THEN _execute_skip(w1, reg, self, victim_frm)
             ELSE _execute_attack(w1, reg, self, victim_frm, draw, probability, inject_pos)

\* attack(victim_frame)
attack(w, reg, self, victim_frm, draw, probability, inject_pos) ==
    IF w.state[self] # ERROR_ACTIVE THEN Result(w, "False", None)
    ELSE LET w1 == [w EXCEPT !.stats.cycle_count = @ + 1]
         IN  IF _should_skip(w1, self)
             THEN _execute_skip(w1, reg, self, victim_frm)
             ELSE _execute_attack(w1, reg, self, victim_frm, draw, probability, inject_pos)

---------------------------------------------------------------------------
(* simulation.py: run_simulation, after the setup that attaches both nodes  *)

\* The draws of random.random() that the model tells apart, in hundredths:
\* both sides of SYNC_ERROR_PROBABILITY and the two ends of [0, 1).
JitterDraws == {0, 4, 5, 99}

NoCall == [op |-> "none"]

Constructed ==
    [tec |-> [n \in Nodes |-> 0],
     state |-> [n \in Nodes |-> ERROR_ACTIVE],
     rx |-> [n \in Nodes |-> << >>],
     stats |-> InitStats,
     seq |-> 0]

Init ==
    /\ tec = Constructed.tec
    /\ state = Constructed.state
    /\ rx = Constructed.rx
    /\ stats = Constructed.stats
    /\ seq = Constructed.seq
    /\ registered = Nodes
    /\ lock = None
    /\ cycle = 0
    /\ pc = "loop"
    /\ victim_frame = None
    /\ ok = TRUE
    /\ call = NoCall
    /\ ret = "None"
    /\ pre = Constructed

\* while cycle < max_cycles: cycle += 1; victim_frame = victim.broadcast(),
\* a RuntimeError from broadcast breaks the loop.  The head of one iteration,
\* from the objects w, the locals c and vf: the objects, the locals and the
\* position after it.
LoopHead(w, c, vf, max_cycles) ==
    IF c < max_cycles
    THEN LET b == broadcast(w, VICTIM)
         IN  IF b.ret = "RuntimeError"
             THEN [w |-> b.w, cycle |-> c + 1, victim_frame |-> vf, pc |-> "report"]
             ELSE [w |-> b.w, cycle |-> c + 1, victim_frame |-> b.frame, pc |-> "attack"]
    ELSE [w |-> w, cycle |-> c, victim_frame |-> vf, pc |-> "report"]

Loop(max_cycles) ==
    /\ pc = "loop"
    /\ LET h == LoopHead(World, cycle, victim_frame, max_cycles)
       IN  /\ SetWorld(h.w)
           /\ cycle' = h.cycle
           /\ victim_frame' = h.victim_frame
           /\ pc' = h.pc
    /\ UNCHANGED <<busvars, ok, callvars>>

\* attacker.attack(victim_frame): the refusal, _cycle_count += 1, _should_skip
AttackEntry ==
    /\ pc = "attack"
    /\ IF state[ATTACKER] # ERROR_ACTIVE
       THEN /\ ok' = FALSE
            /\ pc' = "cycle_end"
            /\ UNCHANGED objvars
       ELSE /\ stats' = [stats EXCEPT !.cycle_count = @ + 1]
            /\ pc' = IF _should_skip(World, ATTACKER) THEN "skip_victim" ELSE "jitter"
            /\ UNCHANGED <<tec, state, rx, seq, ok>>
    /\ UNCHANGED <<busvars, cycle, victim_frame, callvars>>

SkipVictimStep ==
    /\ pc = "skip_victim"
    /\ SetWorld(SkipVictimDecrement(World, registered, ATTACKER, Val(victim_frame)))
    /\ pc' = "skip_check"
    /\ UNCHANGED <<busvars, simvars, callvars>>

SkipCheckStep ==
    /\ pc = "skip_check"
    /\ SetWorld(VictimCheck(World, registered, ATTACKER, Val(victim_frame)))
    /\ pc' = "skip_valid"
    /\ UNCHANGED <<busvars, simvars, callvars>>

SkipValidStep ==
    /\ pc = "skip_valid"
    /\ SetWorld(SendValidFrames(World, registered, ATTACKER))
    /\ ok' = TRUE
    /\ pc' = "cycle_end"
    /\ UNCHANGED <<busvars, cycle, victim_frame, callvars>>

\* _execute_attack: _attack_count += 1 and the sync-error draw
JitterStep(probability) ==
    /\ pc = "jitter"
    /\ stats' = [stats EXCEPT !.attack_count = @ + 1]
    /\ \E draw \in JitterDraws :
           pc' = IF SyncError(draw, probability) THEN "mistimed" ELSE "inject"
    /\ UNCHANGED <<tec, state, rx, seq, busvars, simvars, callvars>>

MistimedVictimStep ==
    /\ pc = "mistimed"
    /\ SetWorld(MistimedVictimDecrement(World, registered, ATTACKER, Val(victim_frame)))
    /\ pc' = "mistimed_check"
    /\ UNCHANGED <<busvars, simvars, callvars>>

MistimedCheckStep ==
    /\ pc = "mistimed_check"
    /\ SetWorld(VictimCheck(World, registered, ATTACKER, Val(victim_frame)))
    /\ ok' = TRUE
    /\ pc' = "cycle_end"
    /\ UNCHANGED <<busvars, cycle, victim_frame, callvars>>

\* _make_attack_frame with random.choice(SAFE_INJECT_POSITIONS), then self.send;
\* an exception from send leaves attack() and the loop
InjectStep ==
    /\ pc = "inject"
    /\ \E inject_pos \in SAFE_INJECT_POSITIONS :
           LET sent == Inject(World, registered, ATTACKER, Val(victim_frame), inject_pos)
           IN  /\ SetWorld(sent.w)
               /\ pc' = IF sent.ret \in {"RuntimeError", "IndexError"}
                        THEN "raised" ELSE "attack_valid"
    /\ UNCHANGED <<busvars, simvars, callvars>>

AttackValidStep ==
    /\ pc = "attack_valid"
    /\ SetWorld(SendValidFrames(World, registered, ATTACKER))
    /\ ok' = TRUE
    /\ pc' = "cycle_end"
    /\ UNCHANGED <<busvars, cycle, victim_frame, callvars>>

\* Variant: the loop goes on after the victim went Bus-Off.
CycleEnd_ignores_bus_off ==
    /\ pc = "cycle_end"
    /\ pc' = IF ~ok THEN "report"
             ELSE IF state[ATTACKER] # ERROR_ACTIVE THEN "report"
             ELSE "loop"
    /\ UNCHANGED <<objvars, busvars, simvars, callvars>>

\* if not ok: break; if victim.state == BUS_OFF: break;
\* if attacker.state != ERROR_ACTIVE: break
CycleEnd ==
    /\ pc = "cycle_end"
    /\ pc' = IF ~ok THEN "report"
             ELSE IF state[VICTIM] = BUS_OFF THEN "report"
             ELSE IF state[ATTACKER] # ERROR_ACTIVE THEN "report"
             ELSE "loop"
    /\ UNCHANGED <<objvars, busvars, simvars, callvars>>

\* The max_cycles argument of the runs explored with jitter; the victim needs
\* 63 cycles to reach Bus-Off when no cycle is mis-timed, and more when some
\* are.
MaxCycles == 70

Next ==
    \/ Loop(MaxCycles)
    \/ AttackEntry
    \/ SkipVictimStep
    \/ SkipCheckStep
    \/ SkipValidStep
    \/ JitterStep(SYNC_ERROR_PERCENT)
    \/ MistimedVictimStep
    \/ MistimedCheckStep
    \/ InjectStep
    \/ AttackValidStep
    \/ CycleEnd

Spec == Init /\ [][Next]_vars

\* The same loop with SYNC_ERROR_PROBABILITY set to 0: no draw is below it,
\* so no mis-timed cycle is ever entered.
NextNoJitter ==
    \/ Loop(DEFAULT_MAX_CYCLES)
    \/ AttackEntry
    \/ SkipVictimStep
    \/ SkipCheckStep
    \/ SkipValidStep
    \/ JitterStep(0)
    \/ InjectStep
    \/ AttackValidStep
    \/ CycleEnd

SpecNoJitter == Init /\ [][NextNoJitter]_vars

---------------------------------------------------------------------------
(* SpecNode: one ECU, constructed, then any sequence of calls of its        *)
(* counter methods with non-negative amounts.                               *)

UnitNode == VICTIM
Amounts == {0, 1, 5, 8, 300}

InitNode ==
    /\ tec = Constructed.tec
    /\ state = Constructed.state
    /\ rx = Constructed.rx
    /\ stats = Constructed.stats
    /\ seq = Constructed.seq
    /\ registered = {}
    /\ lock = None
    /\ cycle = 0
    /\ pc = "unit"
    /\ victim_frame = None
    /\ ok = TRUE
    /\ call = NoCall
    /\ ret = "None"
    /\ pre = Constructed

CallIncrement ==
    /\ pc = "unit"
    /\ \E amount \in Amounts :
           /\ SetWorld(NodeIncrement(World, UnitNode, amount))
           /\ call' = [op |-> "_increment_tec", node |-> UnitNode, amount |-> amount,
                       old_tec |-> tec[UnitNode]]
    /\ ret' = "None"
    /\ UNCHANGED <<busvars, simvars, pc, pre>>

CallDecrement ==
    /\ pc = "unit"
    /\ \E amount \in Amounts :
           /\ SetWorld(NodeDecrement(World, UnitNode, amount))
           /\ call' = [op |-> "_decrement_tec", node |-> UnitNode, amount |-> amount,
                       old_tec |-> tec[UnitNode]]
    /\ ret' = "None"
    /\ UNCHANGED <<busvars, simvars, pc, pre>>

\* old_state is the local of _check_state_transition
CallCheck ==
    /\ pc = "unit"
    /\ SetWorld(NodeCheck(World, UnitNode))
    /\ call' = [op |-> "_check_state_transition", node |-> UnitNode,
                old_state |-> state[UnitNode]]
    /\ ret' = "None"
    /\ UNCHANGED <<busvars, simvars, pc, pre>>

NextNode ==
    \/ CallIncrement
    \/ CallDecrement
    \/ CallCheck

SpecNode == InitNode /\ [][NextNode]_vars

---------------------------------------------------------------------------
(* SpecBus: one call of the bus or of the attacker, applied to a state the  *)
(* program can be in: counters drawn from TecSamples, each state the one    *)
(* its counter gives, as every bus operation leaves it.                     *)

TecSamples == {0, 1, 5, 6, 50, 127, 247, 248, 256}

GHOST == "GHOST"
Names == Nodes \cup {GHOST}

RegisteredSets == {Nodes, {VICTIM}}

CanIds == {VICTIM_CAN_ID, 255}
Payloads == {<< >>, VICTIM_DATA_PREFIX \o <<1>>}
InjectPositions == {None} \cup {Some(p) : p \in {2, 11, 13, 43, -1, -50}}
ValidCounts == {0, 1, 5}

Frames ==
    {CANFrame(i, d, s, p, m) :
        i \in CanIds, d \in Payloads, s \in Names, p \in InjectPositions, m \in BOOLEAN}

\* The frames of a producer: no injection directive, not malicious, sent by the
\* victim or by a node the bus does not know.
PlainFrames ==
    {f \in Frames : /\ IsNone(f.inject_recessive_at)
                    /\ ~f.is_malicious
                    /\ f.sender_id \in {VICTIM, GHOST}}

Concurrents == {None} \cup {Some(f) : f \in PlainFrames}

InitBus ==
    /\ tec \in [Nodes -> TecSamples]
    /\ state = [n \in Nodes |-> _check_state_transition(tec[n])]
    /\ rx = Constructed.rx
    /\ stats = Constructed.stats
    /\ seq = Constructed.seq
    /\ registered \in RegisteredSets
    /\ lock = None
    /\ cycle = 0
    /\ pc = "ready"
    /\ victim_frame = None
    /\ ok = TRUE
    /\ call = NoCall
    /\ ret = "None"
    /\ pre = World

CallTransmit ==
    /\ pc = "ready"
    /\ \E frame \in Frames, concurrent \in Concurrents :
           LET r == transmit(World, registered, frame, concurrent)
           IN  /\ SetWorld(r.w)
               /\ ret' = r.ret
               /\ call' = [op |-> "transmit", frame |-> frame, concurrent |-> concurrent,
                           winner |-> r.winner]
    /\ pc' = "returned"
    /\ UNCHANGED <<busvars, simvars, pre>>

CallTransmitValid ==
    /\ pc = "ready"
    /\ \E sender_name \in Names, n \in ValidCounts :
           /\ SetWorld(transmit_valid(World, registered, sender_name, n))
           /\ call' = [op |-> "transmit_valid", sender_name |-> sender_name, n |-> n]
    /\ ret' = "None"
    /\ pc' = "returned"
    /\ UNCHANGED <<busvars, simvars, pre>>

CallAttack ==
    /\ pc = "ready"
    /\ \E victim_frm \in PlainFrames, draw \in JitterDraws,
          inject_pos \in SAFE_INJECT_POSITIONS :
           LET r == attack(World, registered, ATTACKER, victim_frm, draw,
                           SYNC_ERROR_PERCENT, inject_pos)
           IN  /\ SetWorld(r.w)
               /\ ret' = r.ret
               /\ call' = [op |-> "attack", victim_frame |-> victim_frm, draw |-> draw,
                           inject_pos |-> inject_pos]
    /\ pc' = "returned"
    /\ UNCHANGED <<busvars, simvars, pre>>

\* attacker._execute_mistimed(victim_frame), whatever the attacker's counter
CallMistimed ==
    /\ pc = "ready"
    /\ \E victim_frm \in PlainFrames :
           LET r == _execute_mistimed(World, registered, ATTACKER, victim_frm)
           IN  /\ SetWorld(r.w)
               /\ ret' = r.ret
               /\ call' = [op |-> "_execute_mistimed", victim_frame |-> victim_frm]
    /\ pc' = "returned"
    /\ UNCHANGED <<busvars, simvars, pre>>

\* victim.broadcast()
CallBroadcast ==
    /\ pc = "ready"
    /\ LET b == broadcast(World, VICTIM)
       IN  /\ SetWorld(b.w)
           /\ ret' = b.ret
           /\ call' = [op |-> "broadcast", frame |-> b.frame]
    /\ pc' = "returned"
    /\ UNCHANGED <<busvars, simvars, pre>>

\* The frames handed to send(): a producer's frame, or the attack frame built
\* on one at the first of SAFE_INJECT_POSITIONS.
SendFrames ==
    PlainFrames \cup {_make_attack_frame(ATTACKER, f, 13) : f \in PlainFrames}

\* node.send(frame, concurrent_frame)
CallSend ==
    /\ pc = "ready"
    /\ \E self \in Nodes, frame \in SendFrames, concurrent \in Concurrents :
           LET r == send(World, registered, self, frame, concurrent)
           IN  /\ SetWorld(r.w)
               /\ ret' = r.ret
               /\ call' = [op |-> "send", self |-> self, frame |-> frame,
                           concurrent |-> concurrent]
    /\ pc' = "returned"
    /\ UNCHANGED <<busvars, simvars, pre>>

\* The head of one iteration of the orchestrator loop, run on these objects;
\* call.next is where the loop goes from there.
CallLoopHead ==
    /\ pc = "ready"
    /\ LET h == LoopHead(World, cycle, victim_frame, DEFAULT_MAX_CYCLES)
       IN  /\ SetWorld(h.w)
           /\ cycle' = h.cycle
           /\ victim_frame' = h.victim_frame
           /\ ret' = IF h.pc = "report" THEN "break" ELSE "None"
           /\ call' = [op |-> "loop_head", next |-> h.pc]
    /\ pc' = "returned"
    /\ UNCHANGED <<busvars, ok, pre>>

NextBus ==
    \/ CallTransmit
    \/ CallTransmitValid
    \/ CallAttack
    \/ CallMistimed
    \/ CallBroadcast
    \/ CallSend
    \/ CallLoopHead

SpecBus == InitBus /\ [][NextBus]_vars

---------------------------------------------------------------------------
(* SpecCodec: the identifier and payload bits of a frame and the            *)
(* arbitration between two identifiers, over sampled 11-bit identifiers and *)
(* payloads of 0 to 8 bytes.                                                *)

IdSamples == {0, 1, 2, 255, 256, 257, 511, 512, 1023, 1024, 1536, 2046, 2047}

PayloadSamples ==
    {<< >>, <<0>>, <<1>>, <<128>>, <<255>>, <<222, 173>>,
     VICTIM_DATA_PREFIX \o <<1>>,
     <<1, 2, 3, 4, 5, 6, 7, 8>>,
     <<255, 0, 255, 0, 255, 0, 255, 0>>,
     <<0, 0, 0, 0, 0, 0, 0, 128>>}

InitCodec ==
    /\ tec = Constructed.tec
    /\ state = Constructed.state
    /\ rx = Constructed.rx
    /\ stats = Constructed.stats
    /\ seq = Constructed.seq
    /\ registered = Nodes
    /\ lock = None
    /\ cycle = 0
    /\ pc = "ready"
    /\ victim_frame = None
    /\ ok = TRUE
    /\ call = NoCall
    /\ ret = "None"
    /\ pre = Constructed

\* bus.transmit(frame, concurrent_frame) of two plain frames: the arbitration
\* winner it logs
CallArbitrate ==
    /\ pc = "ready"
    /\ \E frame_id \in IdSamples, concurrent_id \in IdSamples :
           LET frame == CANFrame(frame_id, << >>, ATTACKER, None, FALSE)
               concurrent == CANFrame(concurrent_id, << >>, VICTIM, None, FALSE)
               r == transmit(World, registered, frame, Some(concurrent))
           IN  /\ SetWorld(r.w)
               /\ ret' = r.ret
               /\ call' = [op |-> "arbitrate", frame |-> frame,
                           concurrent |-> concurrent, winner |-> r.winner]
    /\ pc' = "returned"
    /\ UNCHANGED <<busvars, simvars, pre>>

\* _do_transmit: the bit sequence _id_to_bits(can_id) + _data_to_bits(data) it
\* builds for a frame
CallEncode ==
    /\ pc = "ready"
    /\ \E can_id \in IdSamples, data \in PayloadSamples :
           LET frame == CANFrame(can_id, data, VICTIM, None, FALSE)
           IN  call' = [op |-> "encode", frame |-> frame,
                        bits |-> VictimFull(frame, None)]
    /\ pc' = "returned"
    /\ UNCHANGED <<objvars, busvars, simvars, ret, pre>>

\* The values VictimECU._seq takes: (_seq + 1) & 0xFF
SeqValues == 0..255

\* One full attack's step 1 on the frame the victim broadcasts when its _seq
\* is s: the attack frame at a position of the pool, sent beside that frame
CallInject ==
    /\ pc = "ready"
    /\ \E s \in SeqValues, inject_pos \in SAFE_INJECT_POSITIONS :
           LET b == broadcast([World EXCEPT !.seq = s], VICTIM)
               r == Inject(b.w, registered, ATTACKER, Val(b.frame), inject_pos)
           IN  /\ SetWorld(r.w)
               /\ ret' = r.ret
               /\ call' = [op |-> "inject", victim_frame |-> Val(b.frame),
                           inject_pos |-> inject_pos,
                           bits |-> VictimFull(Val(b.frame), None)]
    /\ pc' = "returned"
    /\ UNCHANGED <<busvars, simvars, pre>>

NextCodec ==
    \/ CallArbitrate
    \/ CallEncode
    \/ CallInject

SpecCodec == InitCodec /\ [][NextCodec]_vars

---------------------------------------------------------------------------
(* SpecThreads: two threads, each making one call of bus.transmit or        *)
(* bus.transmit_valid on the same bus.  A step is one read or one write of  *)
(* a node field: tec = min(tec + amount, 256) reads tec, then writes it.    *)
(* Here pc and call are per thread; call[t].tmp is the value thread t read. *)
(* Both nodes are registered, so every node lookup of the bus succeeds.     *)

Threads == {"T1", "T2"}

ThreadTecSamples == {0, 3, 250}
ThreadValidCounts == {1, 2}

\* The frame the victim produces and the attack frame built on it at the
\* first of SAFE_INJECT_POSITIONS.
ThreadVictimFrame == _make_frame(VICTIM_CAN_ID, 1, VICTIM)
ThreadAttackFrame == _make_attack_frame(ATTACKER, ThreadVictimFrame, 13)

InitThreads ==
    /\ tec \in [Nodes -> ThreadTecSamples]
    /\ state = [n \in Nodes |-> _check_state_transition(tec[n])]
    /\ rx = Constructed.rx
    /\ stats = Constructed.stats
    /\ seq = Constructed.seq
    /\ registered = Nodes
    /\ lock = None
    /\ cycle = 0
    /\ pc = [t \in Threads |-> "idle"]
    /\ victim_frame = None
    /\ ok = TRUE
    /\ call = [t \in Threads |-> NoCall]
    /\ ret = "None"
    /\ pre = World

threadfixed == <<stats, seq, registered, simvars, ret, pre>>

Goto(t, to) == pc' = [pc EXCEPT ![t] = to]

\* reading node.tec into a local of thread t
Load(t, at, node, to) ==
    /\ pc[t] = at
    /\ call' = [call EXCEPT ![t].tmp = tec[node]]
    /\ Goto(t, to)
    /\ UNCHANGED <<tec, state, rx, lock, threadfixed>>

\* writing node.tec
StoreTec(t, at, node, value, to) ==
    /\ pc[t] = at
    /\ tec' = [tec EXCEPT ![node] = value]
    /\ Goto(t, to)
    /\ UNCHANGED <<state, rx, lock, call, threadfixed>>

\* _check_state_transition: writing node.state from the counter that was read
StoreState(t, at, node, to) ==
    /\ pc[t] = at
    /\ state' = [state EXCEPT ![node] = _check_state_transition(call[t].tmp)]
    /\ Goto(t, to)
    /\ UNCHANGED <<tec, rx, lock, call, threadfixed>>

\* a thread calls bus.transmit(frame, concurrent_frame)
ThreadCallTransmit(t) ==
    /\ pc[t] = "idle"
    /\ \E args \in {<<ThreadAttackFrame, Some(ThreadVictimFrame)>>,
                    <<ThreadVictimFrame, None>>} :
           call' = [call EXCEPT ![t] = [op |-> "transmit", frame |-> args[1],
                                        concurrent |-> args[2], tmp |-> 0]]
    /\ Goto(t, "acquire")
    /\ UNCHANGED <<tec, state, rx, lock, threadfixed>>

\* transmit: with self._lock
Acquire(t) ==
    /\ pc[t] = "acquire"
    /\ lock = None
    /\ lock' = Some(t)
    /\ Goto(t, "do_transmit")
    /\ UNCHANGED <<tec, state, rx, call, threadfixed>>

\* _do_transmit: arbitration and the injected bit, computed from the two
\* frames alone; then either the error flag or the delivery
DoTransmit(t) ==
    /\ pc[t] = "do_transmit"
    /\ LET r == _do_transmit(World, registered, call[t].frame, call[t].concurrent)
       IN  IF r.ret = "False"
           THEN /\ Goto(t, "emit_attacker_inc")
                /\ UNCHANGED rx
           ELSE /\ rx' = _deliver_frame(World, registered, call[t].frame).rx
                /\ Goto(t, "release")
    /\ UNCHANGED <<tec, state, lock, call, threadfixed>>

EmitAttacker(t) == call[t].frame.sender_id
EmitVictim(t) == Val(call[t].concurrent).sender_id

\* _emit_error_flag: attacker._increment_tec(8)
EmitAttackerIncrement(t) ==
    \/ Load(t, "emit_attacker_inc", EmitAttacker(t), "emit_attacker_inc_w")
    \/ StoreTec(t, "emit_attacker_inc_w", EmitAttacker(t),
                _increment_tec(call[t].tmp, ERROR_PENALTY), "emit_victim_inc")

\* _emit_error_flag: victim._increment_tec(8); victim._check_state_transition()
EmitVictimIncrement(t) ==
    \/ Load(t, "emit_victim_inc", EmitVictim(t), "emit_victim_inc_w")
    \/ StoreTec(t, "emit_victim_inc_w", EmitVictim(t),
                _increment_tec(call[t].tmp, ERROR_PENALTY), "emit_victim_check")
    \/ Load(t, "emit_victim_check", EmitVictim(t), "emit_victim_check_w")
    \/ StoreState(t, "emit_victim_check_w", EmitVictim(t), "emit_victim_test")

\* _emit_error_flag: if victim.state != "Bus-Off": victim._decrement_tec(1);
\* victim._check_state_transition()
EmitVictimRetransmit(t) ==
    \/ /\ pc[t] = "emit_victim_test"
       /\ Goto(t, IF state[EmitVictim(t)] # BUS_OFF
                  THEN "emit_victim_dec" ELSE "emit_attacker_check")
       /\ UNCHANGED <<tec, state, rx, lock, call, threadfixed>>
    \/ Load(t, "emit_victim_dec", EmitVictim(t), "emit_victim_dec_w")
    \/ StoreTec(t, "emit_victim_dec_w", EmitVictim(t),
                _decrement_tec(call[t].tmp, RETRANSMIT_DECREMENT), "emit_victim_recheck")
    \/ Load(t, "emit_victim_recheck", EmitVictim(t), "emit_victim_recheck_w")
    \/ StoreState(t, "emit_victim_recheck_w", EmitVictim(t), "emit_attacker_check")

\* _emit_error_flag: attacker._check_state_transition()
EmitAttackerCheck(t) ==
    \/ Load(t, "emit_attacker_check", EmitAttacker(t), "emit_attacker_check_w")
    \/ StoreState(t, "emit_attacker_check_w", EmitAttacker(t), "release")

\* transmit: leaving the with block
Release(t) ==
    /\ pc[t] = "release"
    /\ lock' = None
    /\ Goto(t, "done")
    /\ UNCHANGED <<tec, state, rx, call, threadfixed>>

\* a thread calls bus.transmit_valid(sender_name, n); i counts the iterations
\* of its loop.  No lock is taken.
ThreadCallTransmitValid(t) ==
    /\ pc[t] = "idle"
    /\ \E sender_name \in Nodes, n \in ThreadValidCounts :
           call' = [call EXCEPT ![t] = [op |-> "transmit_valid",
                                        sender_name |-> sender_name, n |-> n,
                                        i |-> 0, tmp |-> 0]]
    /\ Goto(t, "valid_loop")
    /\ UNCHANGED <<tec, state, rx, lock, threadfixed>>

\* transmit_valid: for _ in range(n): if node.tec > 0: node._decrement_tec(1)
ValidLoopStep(t) ==
    \/ /\ pc[t] = "valid_loop"
       /\ IF call[t].i < call[t].n
          THEN /\ call' = [call EXCEPT ![t].i = @ + 1]
               /\ Goto(t, IF tec[call[t].sender_name] > 0
                          THEN "valid_dec" ELSE "valid_loop")
          ELSE /\ Goto(t, "valid_check")
               /\ UNCHANGED call
       /\ UNCHANGED <<tec, state, rx, lock, threadfixed>>
    \/ Load(t, "valid_dec", call[t].sender_name, "valid_dec_w")
    \/ StoreTec(t, "valid_dec_w", call[t].sender_name,
                _decrement_tec(call[t].tmp, 1), "valid_loop")

\* transmit_valid: node._check_state_transition()
ValidCheck(t) ==
    \/ Load(t, "valid_check", call[t].sender_name, "valid_check_w")
    \/ StoreState(t, "valid_check_w", call[t].sender_name, "done")

NextThreads ==
    \E t \in Threads :
        \/ ThreadCallTransmit(t)
        \/ Acquire(t)
        \/ DoTransmit(t)
        \/ EmitAttackerIncrement(t)
        \/ EmitVictimIncrement(t)
        \/ EmitVictimRetransmit(t)
        \/ EmitAttackerCheck(t)
        \/ Release(t)
        \/ ThreadCallTransmitValid(t)
        \/ ValidLoopStep(t)
        \/ ValidCheck(t)

SpecThreads == InitThreads /\ [][NextThreads]_vars

---------------------------------------------------------------------------
(* Properties *)

\* The fixed thresholds as the specification words them.
ThresholdState(c) ==
    IF c < 128 THEN ERROR_ACTIVE
    ELSE IF c < 256 THEN ERROR_PASSIVE
    ELSE BUS_OFF

\* Bit p (0-based) of a frame as the specification lays it out: the 11
\* identifier bits most significant first, then each payload byte most
\* significant bit first.
FrameBitCount(f) == 11 + 8 * Len(f.data)
FrameBit(f, p) ==
    IF p < 11 THEN (f.can_id \div (2 ^ (10 - p))) % 2
    ELSE (f.data[((p - 11) \div 8) + 1] \div (2 ^ (7 - ((p - 11) % 8)))) % 2

IsValidIndex(f, p) == p \in 0..(FrameBitCount(f) - 1)

C3_BusOffAbsorbing ==
    (pc = "returned" /\ call.op \in {"transmit_valid", "attack"}) =>
        \A n \in Nodes : pre.state[n] = BUS_OFF => state[n] = BUS_OFF

\* C4: in every state of every run of the orchestrator loop, whatever the
\* jitter draws and injection positions, the attacker's counter is below 128,
\* its state is Error-Active and attack() has not returned the refusal.
C4_AttackerStaysErrorActive ==
    /\ tec[ATTACKER] < 128
    /\ state[ATTACKER] = ERROR_ACTIVE
    /\ ok

C4_Witness ==
    /\ pc = "attack_valid"
    /\ tec[ATTACKER] = 13
    /\ state[ATTACKER] = ERROR_ACTIVE
    /\ stats.mistimed_count >= 2
    /\ stats.skip_count >= 2

\* C5: after any sequence of _increment_tec and _decrement_tec calls with
\* non-negative amounts on a node constructed at 0, its counter is in [0, 256].
C5_CounterClamped == \A n \in Nodes : tec[n] \in 0..256

C5_Witness ==
    /\ call.op = "_increment_tec"
    /\ call.old_tec \in 1..255
    /\ call.old_tec + call.amount > 256
    /\ tec[call.node] = 256

\* C6: whatever the state before it, _check_state_transition leaves the state
\* Error-Active if the counter is below 128, Error-Passive if it is in
\* [128, 256) and Bus-Off if it is 256 or more.
C6_StateIsFunctionOfCounter ==
    call.op = "_check_state_transition" =>
        state[call.node] = ThresholdState(tec[call.node])

C6_Witness ==
    /\ call.op = "_check_state_transition"
    /\ call.old_state = BUS_OFF
    /\ tec[call.node] \in 1..127
    /\ state[call.node] = ERROR_ACTIVE

\* The case of C7 and C8: bus.transmit of a frame beside a concurrent frame, the
\* two sent by two different registered nodes.
TwoParties ==
    /\ pc = "returned"
    /\ call.op = "transmit"
    /\ ~IsNone(call.concurrent)
    /\ call.frame.sender_id \in registered
    /\ Val(call.concurrent).sender_id \in registered
    /\ call.frame.sender_id # Val(call.concurrent).sender_id

\* The malicious frame's position is an index of the victim's bit sequence at
\* which the victim drives dominant.
InjectsAtDominant ==
    /\ TwoParties
    /\ call.frame.is_malicious
    /\ ~IsNone(call.frame.inject_recessive_at)
    /\ IsValidIndex(Val(call.concurrent), Val(call.frame.inject_recessive_at))
    /\ FrameBit(Val(call.concurrent), Val(call.frame.inject_recessive_at)) = DOMINANT

\* C7 as stated: when the injection position is a dominant bit of the victim's
\* frame, transmit returns false and both counters are exactly 8 higher.
C7_BothCountersPlus8 ==
    InjectsAtDominant =>
        LET a == call.frame.sender_id
            v == Val(call.concurrent).sender_id
        IN  /\ ret = "False"
            /\ tec[a] = pre.tec[a] + 8
            /\ tec[v] = pre.tec[v] + 8

\* C7 amended: when the injection position is a dominant bit of the victim's
\* frame, transmit returns false and, when it returns, the attacker's counter
\* is min(a + 8, 256) and the victim's is v + 7 if v + 8 < 256 and 256 otherwise.
C7_BitErrorDetected ==
    InjectsAtDominant =>
        LET a == call.frame.sender_id
            v == Val(call.concurrent).sender_id
        IN  /\ ret = "False"
            /\ tec[a] = Min(pre.tec[a] + 8, 256)
            /\ tec[v] = IF pre.tec[v] + 8 < 256 THEN pre.tec[v] + 7 ELSE 256

C7_Witness ==
    /\ InjectsAtDominant
    /\ Val(call.frame.inject_recessive_at) = 13
    /\ ret = "False"
    /\ pre.tec[ATTACKER] = 0
    /\ tec[ATTACKER] = 8
    /\ pre.tec[VICTIM] = 50
    /\ tec[VICTIM] = 57

\* C8: the fault-confinement procedure, run on a bit error between two
\* registered nodes, leaves the attacker at min(a + 8, 256), the victim at
\* v + 7 when v + 8 < 256 and at 256, Bus-Off, with no retransmission when
\* v + 8 >= 256, and each state the threshold function of the final counter.
C8_FaultConfinement ==
    (TwoParties /\ ret = "False") =>
        LET a == call.frame.sender_id
            v == Val(call.concurrent).sender_id
        IN  /\ tec[a] = Min(pre.tec[a] + 8, 256)
            /\ pre.tec[v] + 8 < 256 => tec[v] = pre.tec[v] + 7
            /\ pre.tec[v] + 8 >= 256 => (tec[v] = 256 /\ state[v] = BUS_OFF)
            /\ state[a] = ThresholdState(tec[a])
            /\ state[v] = ThresholdState(tec[v])

C8_Witness ==
    /\ TwoParties
    /\ ret = "False"
    /\ pre.tec[VICTIM] = 248
    /\ pre.state[VICTIM] = ERROR_PASSIVE
    /\ tec[VICTIM] = 256
    /\ state[VICTIM] = BUS_OFF
    /\ pre.tec[ATTACKER] = 127
    /\ state[ATTACKER] = ERROR_PASSIVE

\* The error case of C9: a malicious frame with a position at which the other
\* party (the concurrent frame, or the frame itself without one) has a
\* dominant bit.
C9_ErrorCase ==
    /\ call.frame.is_malicious
    /\ ~IsNone(call.frame.inject_recessive_at)
    /\ LET other == IF IsNone(call.concurrent) THEN call.frame ELSE Val(call.concurrent)
           p == Val(call.frame.inject_recessive_at)
       IN  IsValidIndex(other, p) /\ FrameBit(other, p) = DOMINANT

\* C9 as stated, for a frame whose position (if any) is a valid index of its
\* own bits, sent alone or beside another sender's frame: transmit returns
\* false exactly in the error case, and in every other case returns true and
\* changes no counter.
C9_FalseExactlyOnDominant ==
    (/\ pc = "returned"
     /\ call.op = "transmit"
     /\ (IsNone(call.concurrent)
            \/ Val(call.concurrent).sender_id # call.frame.sender_id)
     /\ (IsNone(call.frame.inject_recessive_at)
            \/ IsValidIndex(call.frame, Val(call.frame.inject_recessive_at)))) =>
        /\ (ret = "False") <=> C9_ErrorCase
        /\ ~C9_ErrorCase => (ret = "True" /\ tec = pre.tec)

\* The case of C10: attack() entered by an attached, Error-Active attacker
\* with counter >= 6, on a frame of the registered victim, which is not Bus-Off.
SkipCase ==
    /\ pc = "returned"
    /\ call.op = "attack"
    /\ ATTACKER \in registered
    /\ pre.state[ATTACKER] = ERROR_ACTIVE
    /\ pre.tec[ATTACKER] >= 6
    /\ call.victim_frame.sender_id = VICTIM
    /\ VICTIM \in registered
    /\ pre.state[VICTIM] # BUS_OFF

\* C10: one skip cycle leaves the attacker at max(a - 5, 0) and the victim at
\* max(v - 1, 0), each state the threshold function of the new counter, and
\* injects no fault: no frame reaches a receive queue, no attack is counted.
C10_SkipCycle ==
    SkipCase =>
        /\ tec[ATTACKER] = Max(pre.tec[ATTACKER] - 5, 0)
        /\ tec[VICTIM] = Max(pre.tec[VICTIM] - 1, 0)
        /\ state[ATTACKER] = ThresholdState(tec[ATTACKER])
        /\ state[VICTIM] = ThresholdState(tec[VICTIM])
        /\ ret = "True"
        /\ rx = pre.rx
        /\ stats.skip_count = pre.stats.skip_count + 1
        /\ stats.attack_count = pre.stats.attack_count

C10_Witness ==
    /\ SkipCase
    /\ pre.tec[ATTACKER] = 6
    /\ pre.tec[VICTIM] = 50
    /\ tec[ATTACKER] = 1
    /\ tec[VICTIM] = 49

\* The case of C11: one mis-timed cycle, run by _execute_mistimed itself or
\* entered through attack() on a draw below SYNC_ERROR_PROBABILITY, by an
\* attached attacker on a frame of the registered victim whose counter is in
\* [0, 255].
MistimedCase ==
    /\ pc = "returned"
    /\ \/ call.op = "_execute_mistimed"
       \/ /\ call.op = "attack"
          /\ pre.state[ATTACKER] = ERROR_ACTIVE
          /\ pre.tec[ATTACKER] < 6
          /\ call.draw < 5
    /\ ATTACKER \in registered
    /\ VICTIM \in registered
    /\ call.victim_frame.sender_id = VICTIM
    /\ pre.tec[VICTIM] \in 0..255

\* C11 as stated: one mis-timed cycle leaves the attacker's counter unchanged
\* and the victim's counter exactly 1 lower, for every victim counter in
\* [0, 255].
C11_MistimedMinusOne ==
    MistimedCase =>
        /\ tec[ATTACKER] = pre.tec[ATTACKER]
        /\ tec[VICTIM] = pre.tec[VICTIM] - 1

\* C11 amended: one mis-timed cycle leaves the attacker's counter and state
\* unchanged and the victim's counter at max(v - 1, 0): exactly 1 lower for v in
\* [1, 255], and still 0 for v = 0; the victim's state is the threshold
\* function of its new counter and the cycle is counted as mis-timed.
C11_MistimedFloorsAtZero ==
    MistimedCase =>
        /\ tec[ATTACKER] = pre.tec[ATTACKER]
        /\ state[ATTACKER] = pre.state[ATTACKER]
        /\ tec[VICTIM] = Max(pre.tec[VICTIM] - 1, 0)
        /\ state[VICTIM] = ThresholdState(tec[VICTIM])
        /\ stats.mistimed_count = pre.stats.mistimed_count + 1
        /\ ret = "True"

C11_Witness ==
    /\ MistimedCase
    /\ call.op = "attack"
    /\ pre.tec[ATTACKER] = 5
    /\ tec[ATTACKER] = 5
    /\ pre.tec[VICTIM] = 0
    /\ tec[VICTIM] = 0

\* The first (0-based, most significant first) bit index at which two 11-bit
\* identifiers differ.
FirstDiffer(a, b) ==
    CHOOSE i \in 0..10 :
        /\ (a \div (2 ^ (10 - i))) % 2 # (b \div (2 ^ (10 - i))) % 2
        /\ \A j \in 0..(i - 1) : (a \div (2 ^ (10 - j))) % 2 = (b \div (2 ^ (10 - j))) % 2

\* C12: for two identifiers handed to bus.transmit as frame and concurrent
\* frame, the arbitration winner is the sender whose identifier has a 0 at the
\* first bit where the two differ, which is the numerically lower identifier,
\* whichever argument carried it; equal identifiers give the tie.
C12_LowerIdWins ==
    (pc = "returned" /\ call.op = "arbitrate") =>
        LET a == call.frame.can_id
            b == call.concurrent.can_id
        IN  /\ a = b => call.winner = Some("TIE")
            /\ a # b =>
                 LET i == FirstDiffer(a, b)
                     dominant_sender == IF (a \div (2 ^ (10 - i))) % 2 = 0
                                        THEN call.frame.sender_id
                                        ELSE call.concurrent.sender_id
                 IN  /\ call.winner = Some(dominant_sender)
                     /\ call.winner = Some(IF a < b THEN call.frame.sender_id
                                           ELSE call.concurrent.sender_id)

C12_Witness ==
    /\ pc = "returned"
    /\ call.op = "arbitrate"
    /\ call.frame.can_id = 1536
    /\ call.concurrent.can_id = 1023
    /\ call.winner = Some(VICTIM)

\* The value of the n bits of a bit sequence that start after index from, most
\* significant first.
RECURSIVE BitsValue(_, _, _)
BitsValue(bits, from, n) ==
    IF n = 0 THEN 0
    ELSE 2 * BitsValue(bits, from, n - 1) + bits[from + n]

\* Decoding a frame bit sequence: the first 11 bits are the identifier, each
\* following group of 8 bits one payload byte.
DecodeId(bits) == BitsValue(bits, 0, 11)
DecodeData(bits) ==
    [j \in 1..((Len(bits) - 11) \div 8) |-> BitsValue(bits, 11 + 8 * (j - 1), 8)]

\* C20: the bit sequence of a frame is its 11 identifier bits most significant
\* first followed by the 8 bits of each payload byte most significant first,
\* and decoding it gives back the identifier and the payload bytes.
C20_EncodeDecode ==
    (pc = "returned" /\ call.op = "encode") =>
        /\ Len(call.bits) = FrameBitCount(call.frame)
        /\ \A p \in 0..(FrameBitCount(call.frame) - 1) :
               call.bits[p + 1] = FrameBit(call.frame, p)
        /\ DecodeId(call.bits) = call.frame.can_id
        /\ DecodeData(call.bits) = call.frame.data

C20_Witness ==
    /\ pc = "returned"
    /\ call.op = "encode"
    /\ call.frame.can_id = 1536
    /\ call.frame.data = <<1, 2, 3, 4, 5, 6, 7, 8>>
    /\ Len(call.bits) = 75
    /\ DecodeData(call.bits) = <<1, 2, 3, 4, 5, 6, 7, 8>>

\* C13: when bus.transmit returns true the frame is appended once to the
\* receive queue of every registered node but the sender and the sender's
\* queue is unchanged; when it returns false no receive queue changes.
C13_Delivery ==
    (pc = "returned" /\ call.op = "transmit") =>
        /\ ret = "True" =>
               \A n \in Nodes :
                   rx[n] = IF n \in registered /\ n # call.frame.sender_id
                           THEN pre.rx[n] \o <<call.frame>>
                           ELSE pre.rx[n]
        /\ ret = "False" => rx = pre.rx

C13_Witness ==
    /\ pc = "returned"
    /\ call.op = "transmit"
    /\ ret = "True"
    /\ registered = Nodes
    /\ call.frame.sender_id = ATTACKER
    /\ rx[VICTIM] = <<call.frame>>
    /\ rx[ATTACKER] = << >>

\* C14: bus.transmit_valid(name, n) leaves a registered node's counter at
\* max(c - n, 0) and its state at the threshold function of that counter, and
\* every other node's counter, state and receive queue as they were; for an
\* unregistered name nothing changes.
C14_TransmitValid ==
    (pc = "returned" /\ call.op = "transmit_valid") =>
        IF call.sender_name \in registered
        THEN /\ tec[call.sender_name] = Max(pre.tec[call.sender_name] - call.n, 0)
             /\ state[call.sender_name] = ThresholdState(tec[call.sender_name])
             /\ \A other \in Nodes \ {call.sender_name} :
                    /\ tec[other] = pre.tec[other]
                    /\ state[other] = pre.state[other]
             /\ rx = pre.rx
        ELSE World = pre

C14_Witness ==
    /\ pc = "returned"
    /\ call.op = "transmit_valid"
    /\ call.sender_name = ATTACKER
    /\ ATTACKER \in registered
    /\ call.n = 5
    /\ pre.tec[ATTACKER] = 1
    /\ tec[ATTACKER] = 0
    /\ pre.tec[VICTIM] = 248
    /\ tec[VICTIM] = 248

\* C16: attack() entered while the attacker is not Error-Active returns false
\* and changes no counter, state, receive queue or diagnostic counter.
C16_RefusalChangesNothing ==
    (pc = "returned" /\ call.op = "attack" /\ pre.state[ATTACKER] # ERROR_ACTIVE) =>
        /\ ret = "False"
        /\ World = pre

C16_Witness ==
    /\ pc = "returned"
    /\ call.op = "attack"
    /\ pre.state[ATTACKER] = ERROR_PASSIVE
    /\ ATTACKER \in registered
    /\ ret = "False"
    /\ stats = InitStats

\* C17 as stated: bus.transmit of a malicious frame whose injection position
\* is not an index of the frame's 11 + 8*len(payload) bits raises an error,
\* delivers nothing and changes no counter or state.
C17_FailsFast ==
    (/\ pc = "returned"
     /\ call.op = "transmit"
     /\ call.frame.is_malicious
     /\ ~IsNone(call.frame.inject_recessive_at)
     /\ ~IsValidIndex(call.frame, Val(call.frame.inject_recessive_at))) =>
        /\ ret \notin {"True", "False"}
        /\ World = pre

\* C18 as stated, the precondition failures: attack() by an attacker that is
\* not attached, or on a frame whose sender is not registered, changes no
\* counter, no state and no diagnostic counter.
C18_AllOrNothing ==
    (/\ pc = "returned"
     /\ call.op = "attack"
     /\ (ATTACKER \notin registered \/ call.victim_frame.sender_id \notin registered)) =>
        World = pre

\* C19: with the victim Bus-Off, broadcast() raises without advancing the
\* sequence counter or producing a frame, and the head of a loop iteration that
\* meets that error leaves the loop for the report having changed no object; a
\* Bus-Off node's send() returns false and changes nothing on the bus.
C19_Disconnected ==
    /\ (pc = "returned" /\ call.op = "broadcast" /\ pre.state[VICTIM] = BUS_OFF) =>
           /\ ret = "RuntimeError"
           /\ call.frame = None
           /\ seq = pre.seq
           /\ World = pre
    /\ (pc = "returned" /\ call.op = "loop_head" /\ pre.state[VICTIM] = BUS_OFF) =>
           /\ call.next = "report"
           /\ victim_frame = None
           /\ World = pre
    /\ (pc = "returned" /\ call.op = "send" /\ pre.state[call.self] = BUS_OFF) =>
           /\ ret = "False"
           /\ World = pre

C19_Witness ==
    /\ pc = "returned"
    /\ call.op = "loop_head"
    /\ pre.state[VICTIM] = BUS_OFF
    /\ call.next = "report"
    /\ cycle = 1
    /\ seq = 0

\* A thread is inside transmit's counter update: past the lock, in the error
\* flag's counter and state writes.
InTransmitUpdate(t) ==
    /\ call[t].op = "transmit"
    /\ pc[t] \in {"emit_attacker_inc", "emit_attacker_inc_w", "emit_victim_inc",
                  "emit_victim_inc_w", "emit_victim_check", "emit_victim_check_w",
                  "emit_victim_test", "emit_victim_dec", "emit_victim_dec_w",
                  "emit_victim_recheck", "emit_victim_recheck_w",
                  "emit_attacker_check", "emit_attacker_check_w"}

\* A thread is inside transmit_valid's counter update.
InTransmitValidUpdate(t) ==
    /\ call[t].op = "transmit_valid"
    /\ pc[t] \in {"valid_loop", "valid_dec", "valid_dec_w", "valid_check",
                  "valid_check_w"}

\* C15 as stated: with two threads calling bus.transmit and bus.transmit_valid
\* on one bus, no state has one thread inside the counter update of one call
\* while the other thread is inside the counter update of another.
C15_MutualExclusion ==
    \A t1 \in Threads, t2 \in Threads :
        t1 # t2 =>
            ~ /\ InTransmitUpdate(t1) \/ InTransmitValidUpdate(t1)
              /\ InTransmitValidUpdate(t2)

\* The positions of the orchestrator's run at which the step taken is a call
\* of bus.transmit (through send) or of bus.transmit_valid.
BusCallPositions == {"inject", "skip_valid", "attack_valid"}

\* C21 as stated: in a run of the orchestrator loop every step that changes a
\* node's counter is a call of bus.transmit or bus.transmit_valid; the
\* attacker's skip and mis-timed cycles change no counter themselves.
C21_CountersChangeOnlyInBus ==
    [][tec' # tec => pc \in BusCallPositions]_vars

\* C22 as stated: whenever the bus lock is not held, each node's state is the
\* threshold function of its counter.
C22_NoStaleStateOutsideLock ==
    lock = None => \A n \in Nodes : state[n] = ThresholdState(tec[n])

\* C23 as stated: between attack() calls, cycles attempted = cycles attacked +
\* cycles mis-timed + cycles skipped.
C23_CountersDisjoint ==
    pc \in {"loop", "cycle_end", "report"} =>
        stats.cycle_count =
            stats.attack_count + stats.mistimed_count + stats.skip_count

\* The case of C24 and C25: attack() entered by an attached, Error-Active
\* attacker on a frame of the registered victim, which is not Bus-Off.
AttackCase ==
    /\ pc = "returned"
    /\ call.op = "attack"
    /\ pre.state[ATTACKER] = ERROR_ACTIVE
    /\ ATTACKER \in registered
    /\ VICTIM \in registered
    /\ call.victim_frame.sender_id = VICTIM
    /\ pre.state[VICTIM] # BUS_OFF

\* The behaviour a cycle took, read from the diagnostic counters.
CycleSkipped == stats.skip_count = pre.stats.skip_count + 1
CycleMistimed == stats.mistimed_count = pre.stats.mistimed_count + 1
CycleFullAttack ==
    /\ stats.attack_count = pre.stats.attack_count + 1
    /\ stats.mistimed_count = pre.stats.mistimed_count

\* C24: an Error-Active attacker's cycle is a skip iff its counter is >= 6 at
\* the start, whatever the draw; otherwise mis-timed iff the draw is below the
\* jitter probability (5 hundredths); otherwise a full attack.  The counters
\* move as that one behaviour moves them, and a counter rises only in a full
\* attack.
C24_Precedence ==
    AttackCase =>
        LET a == pre.tec[ATTACKER]
            v == pre.tec[VICTIM]
        IN  /\ CycleSkipped <=> a >= 6
            /\ CycleMistimed <=> (a < 6 /\ call.draw < 5)
            /\ CycleFullAttack <=> (a < 6 /\ call.draw >= 5)
            /\ a >= 6 =>
                   /\ tec[ATTACKER] = Max(a - 5, 0)
                   /\ tec[VICTIM] = Max(v - 1, 0)
            /\ (a < 6 /\ call.draw < 5) =>
                   /\ tec[ATTACKER] = a
                   /\ tec[VICTIM] = Max(v - 1, 0)
            /\ (a < 6 /\ call.draw >= 5) =>
                   /\ tec[ATTACKER] = a + 3
                   /\ tec[VICTIM] = IF v + 8 < 256 THEN v + 7 ELSE 256
            /\ (tec[ATTACKER] > a \/ tec[VICTIM] > v) => CycleFullAttack

C24_Witness ==
    /\ AttackCase
    /\ pre.tec[ATTACKER] = 6
    /\ call.draw = 0
    /\ CycleSkipped
    /\ ~CycleMistimed
    /\ tec[ATTACKER] = 1

\* C25: one full attack cycle started with attacker counter a < 6 and victim
\* counter v <= 247 ends with the attacker at a + 3 and the victim at v + 7,
\* each state the threshold function of the new counter.
C25_FullAttackArithmetic ==
    (/\ AttackCase
     /\ pre.tec[ATTACKER] < 6
     /\ pre.tec[VICTIM] <= 247
     /\ call.draw >= 5) =>
        /\ ret = "True"
        /\ tec[ATTACKER] = pre.tec[ATTACKER] + 3
        /\ tec[VICTIM] = pre.tec[VICTIM] + 7
        /\ state[ATTACKER] = ThresholdState(tec[ATTACKER])
        /\ state[VICTIM] = ThresholdState(tec[VICTIM])

C25_Witness ==
    /\ AttackCase
    /\ call.draw = 5
    /\ pre.tec[ATTACKER] = 5
    /\ tec[ATTACKER] = 8
    /\ pre.tec[VICTIM] = 127
    /\ pre.state[VICTIM] = ERROR_ACTIVE
    /\ tec[VICTIM] = 134
    /\ state[VICTIM] = ERROR_PASSIVE

\* C26: for the victim's frame (identifier 0x100, payload DE AD BE seq) with
\* every sequence byte, each position of the injection pool is an index of the
\* 43 frame bits at which the victim drives dominant, and the transmit of the
\* attack frame at that position returns false, both counters raised.
C26_PoolHitsDominantBits ==
    (pc = "returned" /\ call.op = "inject") =>
        /\ call.victim_frame.can_id = 256
        /\ call.victim_frame.data[1] = 222
        /\ call.victim_frame.data[2] = 173
        /\ call.victim_frame.data[3] = 190
        /\ Len(call.victim_frame.data) = 4
        /\ Len(call.bits) = 43
        /\ call.inject_pos \in 0..42
        /\ call.bits[call.inject_pos + 1] = 0
        /\ FrameBit(call.victim_frame, call.inject_pos) = 0
        /\ ret = "False"
        /\ tec[ATTACKER] = 8
        /\ tec[VICTIM] = 7

C26_Witness ==
    /\ pc = "returned"
    /\ call.op = "inject"
    /\ call.victim_frame.data = <<222, 173, 190, 0>>
    /\ call.inject_pos = 34
    /\ ret = "False"

\* The loop is about to call the producer (pc = "loop") or the attacker
\* (pc = "attack").
AboutToCall == pc \in {"loop", "attack"}

\* How far a position is from the end of its cycle, and the steps a run has
\* left at most: 10 per cycle not yet started plus those of the current one.
PcRank ==
    [report |-> 0, raised |-> 0, loop |-> 1, cycle_end |-> 2, skip_valid |-> 3,
     attack_valid |-> 3, mistimed_check |-> 3, skip_check |-> 4, inject |-> 4,
     mistimed |-> 4, skip_victim |-> 5, jitter |-> 6, attack |-> 7]
RemainingSteps == 10 * (MaxCycles - cycle) + PcRank[pc]

\* The positions from which the loop has a next statement to run.
StepPositions ==
    {"loop", "attack", "skip_victim", "skip_check", "skip_valid", "jitter",
     "mistimed", "mistimed_check", "inject", "attack_valid", "cycle_end"}

\* C27: the loop runs at most max_cycles cycles and always terminates: every
\* step lowers the bounded count of steps left, and the run is never anywhere
\* but at a statement of the loop or at the final report.  Whenever the loop is about to call the
\* producer or the attacker the victim is not Bus-Off and the attacker is
\* Error-Active, so no call follows a cycle that ended with either condition,
\* and a run that ends before the cycle limit ends on such a cycle.
C27_LoopTerminates ==
    /\ [](cycle <= MaxCycles /\ RemainingSteps >= 0)
    /\ [][RemainingSteps' < RemainingSteps]_vars
    /\ [](pc # "report" => pc \in StepPositions)
    /\ [](AboutToCall =>
              (state[VICTIM] # BUS_OFF /\ state[ATTACKER] = ERROR_ACTIVE))
    /\ []((pc = "report" /\ cycle < MaxCycles) =>
              (state[VICTIM] = BUS_OFF \/ state[ATTACKER] # ERROR_ACTIVE))

C27_Witness ==
    /\ pc = "report"
    /\ cycle < MaxCycles
    /\ state[VICTIM] = BUS_OFF
    /\ stats.mistimed_count > 0
    /\ stats.skip_count > 0

\* C28: a bus.transmit call that returns true changes no node's counter or
\* state, the sender's included; only receive queues change.
C28_SuccessChangesNoCounter ==
    (pc = "returned" /\ call.op = "transmit" /\ ret = "True") =>
        /\ tec = pre.tec
        /\ state = pre.state
        /\ stats = pre.stats
        /\ seq = pre.seq

C28_Witness ==
    /\ pc = "returned"
    /\ call.op = "transmit"
    /\ ret = "True"
    /\ call.frame.sender_id = VICTIM
    /\ VICTIM \in registered
    /\ pre.tec[VICTIM] = 50
    /\ tec[VICTIM] = 50
    /\ rx[ATTACKER] = <<call.frame>>

\* The arbitration outcome of a transmit call with a concurrent frame, seen
\* from the frame's sender.
FrameWins == call.winner = Some(call.frame.sender_id)
FrameLoses == call.winner = Some(Val(call.concurrent).sender_id)
FrameTies == call.winner = Some("TIE")

\* The same call with the frame's identifier set to the concurrent frame's, so
\* that the arbitration is a tie.
TieCall ==
    transmit(pre, registered,
             [call.frame EXCEPT !.can_id = Val(call.concurrent).can_id],
             call.concurrent)

\* C29: for a transmit call with a concurrent frame from another sender, the
\* return value, the counters and the states are those of the same call made
\* with tying identifiers, whoever won; a non-malicious frame is delivered to
\* every other registered node and true is returned.
C29_ArbitrationHasNoEffect ==
    (/\ pc = "returned"
     /\ call.op = "transmit"
     /\ ~IsNone(call.concurrent)
     /\ Val(call.concurrent).sender_id # call.frame.sender_id) =>
        /\ FrameWins \/ FrameLoses \/ FrameTies
        /\ ret = TieCall.ret
        /\ tec = TieCall.w.tec
        /\ state = TieCall.w.state
        /\ ~call.frame.is_malicious =>
               /\ ret = "True"
               /\ \A n \in Nodes :
                      rx[n] = IF n \in registered /\ n # call.frame.sender_id
                              THEN pre.rx[n] \o <<call.frame>>
                              ELSE pre.rx[n]

C29_Witness ==
    /\ pc = "returned"
    /\ call.op = "transmit"
    /\ ~IsNone(call.concurrent)
    /\ call.frame.sender_id = ATTACKER
    /\ Val(call.concurrent).sender_id = VICTIM
    /\ FrameLoses
    /\ ~call.frame.is_malicious
    /\ ret = "True"
    /\ rx[VICTIM] = <<call.frame>>

\* C30: in every state of every run of the orchestrator loop both receive
\* queues are empty: the full attacks end in a bit error, and the skip and
\* mis-timed cycles, in which the victim is taken to transmit successfully,
\* send no frame through the bus.
C30_NothingDelivered ==
    \A n \in Nodes : rx[n] = << >>

C30_Witness ==
    /\ pc = "cycle_end"
    /\ stats.skip_count >= 1
    /\ stats.mistimed_count >= 1
    /\ stats.attack_count - stats.mistimed_count >= 1
    /\ stats.valid_count >= 10
    /\ rx[VICTIM] = << >>
    /\ rx[ATTACKER] = << >>

====
